---- MODULE Spec2Model ----
(***************************************************************************)
(* A model of the mpdisplay core: the I80 parallel-bus engine               *)
(* (bus_drivers/i80bus.py) and the emulated display surface                 *)
(* (lib/mpdisplay/_sdl2display.py, _pgdisplay.py).                          *)
(*                                                                         *)
(* A 32-bit register word is modelled as the set of its 1-bits (a subset    *)
(* of 0..31): OR is union, XOR is symmetric difference, AND is              *)
(* intersection.  The GPIO port state is the set of pins whose level is     *)
(* high.                                                                   *)
(***************************************************************************)
EXTENDS Integers, Sequences, FiniteSets, TLC

VARIABLES
    bus,            \* "new" | "ready" | "ValueError" | "IndexError" | "TypeError": outcome of I80Bus.__init__
    cfg,            \* the constructor arguments (pins, control pins, polarities, pins_per_port)
    outputs,        \* pins configured as outputs by machine.Pin(pin, OUT)
    pin_masks,      \* self._pin_masks: one 32-bit pin mask per lookup table
    data_regs,      \* pin_data[n*4+1], pin_data[n*4+2]: the two registers of group n
    levels,         \* the GPIO port state: the set of pins that are high
    pc,             \* position in tx_param: "idle" | "cmd" | "data" | "exit" | "returned"
    tx_call,        \* arguments of the running tx_param call
    tx_log          \* register writes of the running tx_param call, in order, with the port state after each

busvars == <<bus, cfg, outputs, pin_masks, data_regs, levels, pc, tx_call, tx_log>>

VARIABLES
    buffer,         \* self._buffer: the backing texture, buffer[y][x] is a pixel value
    window,         \* what the renderer has drawn to the output window, window[y][x]
    tfa,            \* self._tfa: top fixed area
    vsa,            \* self._vsa: vertical scroll area
    bfa,            \* self._bfa: bottom fixed area
    vssa,           \* self._vssa: vertical scroll start address, or False
    show_log,       \* the copies made by the last _show, in order
    surf_result     \* outcome of the last call on the surface: "ok" or the error raised

surfvars == <<buffer, window, tfa, vsa, bfa, vssa, show_log, surf_result>>

VARIABLES
    backend,        \* the display class: "SDL2" (SDL2Display) or "PG" (PGDisplay)
    is_cpython,     \* implementation.name == 'cpython'
    rotation,       \* self._rotation
    devices,        \* self.devices: the registered devices, each with a type and a rotation
    rot_trail,      \* the values self._rotation had before each of its changes
    buf_log         \* what the last rotation change did with the buffers, in order

rotvars == <<backend, is_cpython, rotation, devices, rot_trail, buf_log>>

VARIABLES
    cal_pc,                 \* position of the calibration tool's loop()
    cal_rotation,           \* its loop variable rotation
    cal_wiring,             \* how the panel's raw coordinates differ at this rotation
    touched_zones,          \* its list touched_zones
    touch_rotation_table    \* its list touch_rotation_table

calvars == <<cal_pc, cal_rotation, cal_wiring, touched_zones, touch_rotation_table>>

VARIABLES
    peer,           \* a second I80Bus instance: the attributes of the engine that is not running
    turn            \* which of the two instances the bus variables above belong to: 1 or 2

peervars == <<peer, turn>>

VARIABLES
    pending,        \* the events waiting in the underlying source (SDL / pygame event queue), oldest first
    ev_result,      \* what the last read() / poll() returned: an event, or None
    subscribers,    \* the callbacks subscribed on the display, in registration order, each with its filter
    calls,          \* the callback invocations made by the last poll(), in order
    tpad,           \* the Poller of hardware_setup.py: _touched, col, row
    tpad_result,    \* what the last Poller.poll() returned
    last_touch      \* the last button-1 event handed to Poller.callback, and the last position among them

evvars == <<pending, ev_result, subscribers, calls, tpad, tpad_result, last_touch>>

vars == <<busvars, surfvars, rotvars, calvars, peervars, evvars>>

(***************************************************************************)
(* Bounds of the model.                                                    *)
(***************************************************************************)
\* longest data sequence handed to tx_param
MaxData == 2
\* highest GPIO pin number whose initial level is drawn
MaxPin == 63
\* width and height of the emulated display, in pixels
Width == 2
Height == 4
\* number of devices registered on a surface
MaxDevices == 1
\* number of changes of the rotation of a surface
MaxTurns == 2
\* number of events waiting in the event source
MaxPending == 2
\* number of callbacks subscribed on a display
MaxSubscribers == 2

\* byte values transmitted: 0x00, 0x36, 0xFF
Bytes == {0, 54, 255}

(***************************************************************************)
(* Program constants.                                                      *)
(***************************************************************************)
BusWidth == 8
LutBits == 32
HalfBits == 16

lut_len == 2 ^ BusWidth

(***************************************************************************)
(* 32-bit word arithmetic on bit sets.                                     *)
(***************************************************************************)
Xor(a, b) == (a \ b) \cup (b \ a)
Lo16 == 0 .. (HalfBits - 1)
Hi16 == HalfBits .. (LutBits - 1)

\* index & (1 << bit_number)
BitSet(index, bit_number) == (index \div (2 ^ bit_number)) % 2 = 1

RECURSIVE SeqMax(_)
SeqMax(s) ==
    IF Len(s) = 1 THEN Head(s)
    ELSE LET m == SeqMax(Tail(s)) IN IF Head(s) > m THEN Head(s) ELSE m

Range(s) == {s[i] : i \in DOMAIN s}

(***************************************************************************)
(* GPIO_SET_CLR_REGISTERS (module gpio_registers, not part of src/).        *)
(* A register is named by its kind and the first pin of its port.           *)
(***************************************************************************)
set_reg(pin) == [k |-> "set", base |-> (pin \div LutBits) * LutBits]
clr_reg(pin) == [k |-> "clr", base |-> (pin \div LutBits) * LutBits]
set_reset_reg(pin) == [k |-> "bsrr", base |-> (pin \div HalfBits) * HalfBits]

\* (register, mask) that drives the pin high, and the one that drives it low
PinHigh(ppp, pin) ==
    IF ppp = LutBits
    THEN [reg |-> set_reg(pin), mask |-> {pin % LutBits}]
    ELSE [reg |-> set_reset_reg(pin), mask |-> {pin % HalfBits}]
PinLow(ppp, pin) ==
    IF ppp = LutBits
    THEN [reg |-> clr_reg(pin), mask |-> {pin % LutBits}]
    ELSE [reg |-> set_reset_reg(pin), mask |-> {(pin % HalfBits) + HalfBits}]

\* get_set_clr_masks / get_set_clr_regs (pin, active_high): <<active, inactive>>
get_set_clr(ppp, pin, active_high) ==
    IF active_high THEN <<PinHigh(ppp, pin), PinLow(ppp, pin)>>
    ELSE <<PinLow(ppp, pin), PinHigh(ppp, pin)>>

\* machine.mem32[reg] = value: the effect of a register write on the port state
MemWrite(lv, reg, value) ==
    CASE reg.k = "set" -> lv \cup {reg.base + b : b \in value}
      [] reg.k = "clr" -> lv \ {reg.base + b : b \in value}
      [] reg.k = "bsrr" ->
            (lv \ {reg.base + (b - HalfBits) : b \in value \cap Hi16})
                \cup {reg.base + b : b \in value \cap Lo16}

(***************************************************************************)
(* I80Bus._setup_data_pins                                                 *)
(***************************************************************************)
\* range(0, max(pins), 32)
StartPins(pins) == {s \in 0 .. SeqMax(pins) : s % LutBits = 0 /\ s < SeqMax(pins)}
NumLuts(pins) == Cardinality(StartPins(pins))

\* pin_mask = sum([1 << (p - start_pin) for p in lut_pins]) if lut_pins else 0
PinMaskOf(pins, n) ==
    {p - n * LutBits : p \in {q \in Range(pins) : q >= n * LutBits /\ q < n * LutBits + LutBits}}

\* the lookup table of group n after the population loop
LutOf(pins, n) ==
    IF PinMaskOf(pins, n) = {} THEN <<>>
    ELSE [index \in 0 .. (lut_len - 1) |->
            {pins[i] % LutBits : i \in {j \in DOMAIN pins :
                BitSet(index, j - 1) /\ pins[j] \div LutBits = n}}]

\* self._lookup_tables[pin // 32] raises IndexError when the list has no such entry
LutIndexError(pins) == \E i \in DOMAIN pins : pins[i] \div LutBits >= NumLuts(pins)

\* line 190: addressof(self._lookup_tables[i]) raises TypeError when the entry is None
AddressOfNone(pins) == \E n \in 0 .. (NumLuts(pins) - 1) : PinMaskOf(pins, n) = {}

\* SetupStatus without the bus_width check of lines 108-110
SetupStatusNoWidthCheck(pins) ==
    IF LutIndexError(pins) THEN "IndexError"
    ELSE IF AddressOfNone(pins) THEN "TypeError"
    ELSE "ready"

SetupStatus(pins) ==
    IF Len(pins) # BusWidth THEN "ValueError"
    ELSE IF LutIndexError(pins) THEN "IndexError"
    ELSE IF AddressOfNone(pins) THEN "TypeError"
    ELSE "ready"

GroupRegs(ppp, n) ==
    IF ppp = LutBits
    THEN <<set_reg(n * LutBits), clr_reg(n * LutBits)>>
    ELSE <<set_reset_reg(n * LutBits), set_reset_reg(n * LutBits + HalfBits)>>

(***************************************************************************)
(* Constructor arguments tried.                                            *)
(***************************************************************************)
MkCfg(pins, dc, cs, wr, cah, ddl, pan, ppp) ==
    [pins |-> pins, dc |-> dc, cs |-> cs, wr |-> wr, cs_active_high |-> cah,
     dc_data_level |-> ddl, pclk_active_neg |-> pan, pins_per_port |-> ppp]

\* board_configs/wt32sc01-plus/board_config.py
CfgWT32 == MkCfg(<<9, 46, 3, 8, 18, 17, 16, 15>>, 0, 6, 47, FALSE, 1, FALSE, 32)

Configs ==
    { CfgWT32,
      MkCfg(<<0, 1, 2, 3, 4, 5, 6, 7>>, 8, 9, 10, TRUE, 0, TRUE, 32),
      MkCfg(<<31, 30, 29, 28, 27, 26, 25, 24>>, 20, 21, 22, FALSE, 1, TRUE, 32),
      MkCfg(<<0, 31, 33, 63, 5, 40, 17, 50>>, 1, 32, 62, FALSE, 0, FALSE, 32),
      MkCfg(<<40, 41, 42, 43, 44, 45, 46, 47>>, 2, 3, 48, TRUE, 1, FALSE, 32),
      MkCfg(<<1, 2, 3, 4, 5, 6, 7, 32>>, 8, 9, 10, FALSE, 1, FALSE, 32),
      MkCfg(<<0, 1, 2, 3, 4, 5, 6, 7>>, 17, 16, 18, FALSE, 1, FALSE, 16),
      MkCfg(<<16, 17, 18, 19, 20, 21, 22, 23>>, 40, 41, 42, FALSE, 1, FALSE, 16),
      MkCfg(<<0, 1, 2, 3, 4, 5, 6>>, 8, 9, 10, FALSE, 1, FALSE, 32),
      MkCfg(<<0, 1, 2, 3, 4, 5, 6, 7, 11>>, 8, 9, 10, FALSE, 1, FALSE, 32) }

AllPins == 0 .. MaxPin
InitLevels == { {}, AllPins, {p \in AllPins : p % 2 = 0} }

\* self._lookup_tables: created and appended to together with self._pin_masks
\* (lines 118-138) and filled from the pins (lines 150-167); never written again
lookup_tables == [n \in DOMAIN pin_masks |-> LutOf(cfg.pins, n - 1)]

(***************************************************************************)
(* Control-pin masks and registers (I80Bus.__init__, lines 81-101).         *)
(***************************************************************************)
CsActive(c) == get_set_clr(c.pins_per_port, c.cs, c.cs_active_high)[1]
CsInactive(c) == get_set_clr(c.pins_per_port, c.cs, c.cs_active_high)[2]
DcData(c) == get_set_clr(c.pins_per_port, c.dc, c.dc_data_level # 0)[1]
DcCmd(c) == get_set_clr(c.pins_per_port, c.dc, c.dc_data_level # 0)[2]
WrInactive(c) == get_set_clr(c.pins_per_port, c.wr, c.pclk_active_neg)[1]
WrActive(c) == get_set_clr(c.pins_per_port, c.wr, c.pclk_active_neg)[2]

\* machine.Pin(pin, OUT, value=v)
PinInit(lv, pin, v) == IF v THEN lv \cup {pin} ELSE lv \ {pin}

NoCall == [has_cmd |-> FALSE, cmd |-> 0, has_data |-> FALSE, data |-> <<>>]

\* I80Bus.__init__
Construct(c) ==
    /\ bus = "new"
    /\ cfg' = c
    /\ bus' = SetupStatus(c.pins)
    /\ outputs' = IF SetupStatus(c.pins) = "ValueError" THEN {}
                  ELSE IF SetupStatus(c.pins) \in {"IndexError", "TypeError"} THEN Range(c.pins)
                  ELSE Range(c.pins) \cup {c.dc, c.cs, c.wr}
    /\ IF SetupStatus(c.pins) = "ready"
       THEN /\ pin_masks' = [n \in 1 .. NumLuts(c.pins) |-> PinMaskOf(c.pins, n - 1)]
            /\ data_regs' = [n \in 1 .. NumLuts(c.pins) |-> GroupRegs(c.pins_per_port, n - 1)]
            /\ levels' = PinInit(PinInit(PinInit(levels, c.dc, c.dc_data_level = 0),
                                         c.cs, ~c.cs_active_high),
                                 c.wr, c.pclk_active_neg)
       ELSE UNCHANGED <<pin_masks, data_regs, levels>>
    /\ UNCHANGED <<pc, tx_call, tx_log>>

(***************************************************************************)
(* I80Bus._write and I80Bus.tx_param                                       *)
(***************************************************************************)
\* one register write: the port state changes and the write is logged
Poke(st, op, rm, byte) ==
    [st EXCEPT !.lv = MemWrite(st.lv, rm.reg, rm.mask),
               !.log = Append(st.log, [op |-> op, reg |-> rm.reg, val |-> rm.mask,
                                        byte |-> byte,
                                        lv |-> MemWrite(st.lv, rm.reg, rm.mask)])]

\* lines 267-273: the two register writes of group n (1-based here)
WriteGroup(st, n, val) ==
    LET pin_mask == pin_masks[n]
        tx_value == lookup_tables[n][val]
        s1 == Poke(st, "data_set", [reg |-> data_regs[n][1], mask |-> tx_value], val)
    IN  Poke(s1, "data_clr", [reg |-> data_regs[n][2], mask |-> Xor(tx_value, pin_mask)], val)

\* lines 264-266: for n in range(num_luts): if pin_mask != 0
RECURSIVE WriteGroups(_, _, _)
WriteGroups(st, n, val) ==
    IF n > Len(pin_masks) THEN st
    ELSE WriteGroups(IF pin_masks[n] # {} THEN WriteGroup(st, n, val) ELSE st, n + 1, val)

\* WriteByte with the WR Inactive write moved inside the "if val != last" block
WriteByteLazyStrobe(st, val) ==
    LET s2 == IF val # st.last
              THEN [WriteGroups(Poke(st, "wr_inactive", WrInactive(cfg), val), 1, val)
                        EXCEPT !.last = val]
              ELSE st
    IN  Poke(s2, "wr_active", WrActive(cfg), val)

\* WriteByte without the comparison with the previous value
WriteByteNoElide(st, val) ==
    LET s1 == Poke(st, "wr_inactive", WrInactive(cfg), val)
        s2 == [WriteGroups(s1, 1, val) EXCEPT !.last = val]
    IN  Poke(s2, "wr_active", WrActive(cfg), val)

\* lines 261-278: one iteration of the loop over the bytes
WriteByte(st, val) ==
    LET s1 == Poke(st, "wr_inactive", WrInactive(cfg), val)
        s2 == IF val # s1.last
              THEN [WriteGroups(s1, 1, val) EXCEPT !.last = val]
              ELSE s1
    IN  Poke(s2, "wr_active", WrActive(cfg), val)

RECURSIVE WriteLoop(_, _)
WriteLoop(st, data) ==
    IF data = <<>> THEN st ELSE WriteLoop(WriteByte(st, Head(data)), Tail(data))

\* I80Bus._write(data, length): last is a local that starts at -1
Write(st, data) == WriteLoop([st EXCEPT !.last = -1], data)

DataSeqs == UNION {[1 .. n -> Bytes] : n \in 0 .. MaxData}

\* the state a call works on: the port, the register writes made so far, _write's local
Frame == [lv |-> levels, log |-> tx_log, last |-> -1]

\* tx_param line 198: CS Active
TxEnter(has_cmd, cmd, has_data, data) ==
    /\ bus = "ready"
    /\ pc = "idle"
    /\ LET r == Poke(Frame, "cs_active", CsActive(cfg), -1)
       IN  /\ levels' = r.lv
           /\ tx_log' = r.log
    /\ tx_call' = [has_cmd |-> has_cmd, cmd |-> cmd, has_data |-> has_data, data |-> data]
    /\ pc' = "cmd"
    /\ UNCHANGED <<bus, cfg, outputs, pin_masks, data_regs>>

\* tx_param lines 200-203: if cmd is not None: DC Command, _write(buf1, 1)
TxCmd ==
    /\ pc = "cmd"
    /\ LET r == IF tx_call.has_cmd
                THEN Write(Poke(Frame, "dc_cmd", DcCmd(cfg), -1), <<tx_call.cmd>>)
                ELSE Frame
       IN  /\ levels' = r.lv
           /\ tx_log' = r.log
    /\ pc' = "data"
    /\ UNCHANGED <<bus, cfg, outputs, pin_masks, data_regs, tx_call>>

\* tx_param lines 204-206: if data is not None: DC Data, _write(data, len(data))
TxData ==
    /\ pc = "data"
    /\ LET r == IF tx_call.has_data
                THEN Write(Poke(Frame, "dc_data", DcData(cfg), -1), tx_call.data)
                ELSE Frame
       IN  /\ levels' = r.lv
           /\ tx_log' = r.log
    /\ pc' = "exit"
    /\ UNCHANGED <<bus, cfg, outputs, pin_masks, data_regs, tx_call>>

\* tx_param line 208: CS Inactive
TxExit ==
    /\ pc = "exit"
    /\ LET r == Poke(Frame, "cs_inactive", CsInactive(cfg), -1)
       IN  /\ levels' = r.lv
           /\ tx_log' = r.log
    /\ pc' = "returned"
    /\ UNCHANGED <<bus, cfg, outputs, pin_masks, data_regs, tx_call>>

\* tx_param returns: its arguments and the record of its writes are dropped
TxReturn ==
    /\ pc = "returned"
    /\ pc' = "idle"
    /\ tx_call' = NoCall
    /\ tx_log' = <<>>
    /\ UNCHANGED <<bus, cfg, outputs, pin_masks, data_regs, levels>>

BusInit ==
    /\ bus = "new"
    /\ cfg = MkCfg(<<>>, 0, 0, 0, FALSE, 0, FALSE, 32)
    /\ outputs = {}
    /\ pin_masks = <<>>
    /\ data_regs = <<>>
    /\ levels \in InitLevels
    /\ pc = "idle"
    /\ tx_call = NoCall
    /\ tx_log = <<>>

BusNext ==
    \/ \E c \in Configs : Construct(c)
    \/ \E has_cmd \in BOOLEAN, has_data \in BOOLEAN :
         \E cmd \in (IF has_cmd THEN Bytes ELSE {0}),
            data \in (IF has_data THEN DataSeqs ELSE {<<>>}) :
              TxEnter(has_cmd, cmd, has_data, data)
    \/ TxCmd
    \/ TxData
    \/ TxExit
    \/ TxReturn

(***************************************************************************)
(* The emulated display surface: SDL2Display and PGDisplay.  The scale     *)
(* factor is 1.                                                            *)
(***************************************************************************)
\* _BaseDisplay.width, _BaseDisplay.height: swapped when the rotation is 90 or 270
Swapped(r) == r \in {90, 270}
LogicalWidth(r) == IF Swapped(r) THEN Height ELSE Width
LogicalHeight(r) == IF Swapped(r) THEN Width ELSE Height

\* self.width, self.height
width == LogicalWidth(rotation)
height == LogicalHeight(rotation)

Rows == 0 .. (height - 1)
Cols == 0 .. (width - 1)

\* Python values of self._vssa: the bool False, or an int
PyFalse == [bool |-> TRUE, v |-> 0]
PyInt(n) == [bool |-> FALSE, v |-> n]
\* Python ==: False == 0 is True
PyEq(a, b) == a.v = b.v

\* a rectangle, or None
NoRect == [none |-> TRUE, x |-> 0, y |-> 0, w |-> 0, h |-> 0]
Rect(x, y, w, h) == [none |-> FALSE, x |-> x, y |-> y, w |-> w, h |-> h]

InRect(r, x, y) ==
    /\ x >= r.x /\ x < r.x + r.w
    /\ y >= r.y /\ y < r.y + r.h

\* a texture, surface or window is img[y][x]; its width and height
ImgW(img) == Cardinality(DOMAIN img[0])
ImgH(img) == Cardinality(DOMAIN img)
Bounds(img) == Rect(0, 0, ImgW(img), ImgH(img))

Max(a, b) == IF a >= b THEN a ELSE b
Min(a, b) == IF a <= b THEN a ELSE b

\* SDL_IntersectRect
Intersect(a, b) ==
    Rect(Max(a.x, b.x), Max(a.y, b.y),
         Min(a.x + a.w, b.x + b.w) - Max(a.x, b.x),
         Min(a.y + a.h, b.y + b.h) - Max(a.y, b.y))

Empty(r) == r.w <= 0 \/ r.h <= 0

\* SDL_RenderCopy(renderer, texture, srcrect, dstrect): srcrect is cut to the
\* texture, an empty rectangle copies nothing, and what is left of srcrect is
\* drawn over the whole of dstrect (nearest pixel); None is the whole texture
\* or the whole target
RenderCopy(win, buf, src, dst) ==
    LET s == IF src.none THEN Bounds(buf) ELSE Intersect(src, Bounds(buf))
        d == IF dst.none THEN Bounds(win) ELSE dst
    IN  IF Empty(s) \/ Empty(d) \/ (~src.none /\ Empty(src)) THEN win
        ELSE [y \in DOMAIN win |-> [x \in DOMAIN win[y] |->
                IF InRect(d, x, y)
                THEN buf[s.y + (((2 * (y - d.y) + 1) * s.h) \div (2 * d.h))]
                        [s.x + (((2 * (x - d.x) + 1) * s.w) \div (2 * d.w))]
                ELSE win[y][x]]]

\* pygame Surface.blit(source, dest, area): pixels are copied one to one, cut to
\* the source and to the target; area None is the whole source at (0, 0)
SurfaceBlit(win, buf, src, dst) ==
    LET s == IF src.none THEN Bounds(buf) ELSE src
        d == IF dst.none THEN Rect(0, 0, s.w, s.h) ELSE dst
    IN  [y \in DOMAIN win |-> [x \in DOMAIN win[y] |->
            IF /\ x - d.x >= 0 /\ x - d.x < s.w
               /\ y - d.y >= 0 /\ y - d.y < s.h
               /\ (s.y + y - d.y) \in DOMAIN buf
               /\ (s.x + x - d.x) \in DOMAIN buf[0]
            THEN buf[s.y + y - d.y][s.x + x - d.x]
            ELSE win[y][x]]]

Pass(name, src, dst) == [name |-> name, src |-> src, dst |-> dst]

Full == Rect(0, 0, width, height)

\* apply the copies of a list of passes in order
RECURSIVE Blit(_, _, _)
Blit(win, buf, passes) ==
    IF passes = <<>> THEN win
    ELSE Blit(IF backend = "PG"
              THEN SurfaceBlit(win, buf, Head(passes).src, Head(passes).dst)
              ELSE RenderCopy(win, buf, Head(passes).src, Head(passes).dst),
              buf, Tail(passes))

\* lines 306-314 with vsaTopHeight from a wrong sum (the top fixed area left out)
ScrollPassesNoTfa(t, v, b, y_start) ==
    LET vsaTopHeight == v - y_start
        vsaBtmHeight == v - vsaTopHeight
    IN  (IF t > 0 THEN <<Pass("tfa", Rect(0, 0, width, t), Rect(0, 0, width, t))>> ELSE <<>>)
        \o <<Pass("vsa_top", Rect(0, y_start, width, vsaTopHeight),
                  Rect(0, t, width, vsaTopHeight)),
             Pass("vsa_btm", Rect(0, t, width, vsaBtmHeight),
                  Rect(0, t + vsaTopHeight, width, vsaBtmHeight))>>
        \o (IF b > 0 THEN <<Pass("bfa", Rect(0, t + v, width, b), Rect(0, t + v, width, b))>>
            ELSE <<>>)

\* lines 302-318 with the wraparound part copied before the part from y_start
ScrollPassesSwapped(t, v, b, y_start) ==
    LET vsaTopHeight == v + t - y_start
        vsaBtmHeight == v - vsaTopHeight
    IN  (IF t > 0 THEN <<Pass("tfa", Rect(0, 0, width, t), Rect(0, 0, width, t))>> ELSE <<>>)
        \o <<Pass("vsa_btm", Rect(0, t, width, vsaBtmHeight),
                  Rect(0, t, width, vsaBtmHeight)),
             Pass("vsa_top", Rect(0, y_start, width, vsaTopHeight),
                  Rect(0, t + vsaBtmHeight, width, vsaTopHeight))>>
        \o (IF b > 0 THEN <<Pass("bfa", Rect(0, t + v, width, b), Rect(0, t + v, width, b))>>
            ELSE <<>>)

\* _show lines 301-318: the four steps
ScrollPasses(t, v, b, y_start) ==
    LET vsaTopHeight == v + t - y_start
        vsaBtmHeight == v - vsaTopHeight
    IN  (IF t > 0 THEN <<Pass("tfa", Rect(0, 0, width, t), Rect(0, 0, width, t))>> ELSE <<>>)
        \o <<Pass("vsa_top", Rect(0, y_start, width, vsaTopHeight),
                  Rect(0, t, width, vsaTopHeight)),
             Pass("vsa_btm", Rect(0, t, width, vsaBtmHeight),
                  Rect(0, t + vsaTopHeight, width, vsaBtmHeight))>>
        \o (IF b > 0 THEN <<Pass("bfa", Rect(0, t + v, width, b), Rect(0, t + v, width, b))>>
            ELSE <<>>)

\* _show(renderRect): the copies it makes
ShowPasses(t, v, b, y_start, renderRect) ==
    IF PyEq(y_start, PyFalse)
    THEN <<Pass("direct", renderRect, renderRect)>>
    ELSE ScrollPasses(t, v, b, y_start.v)

\* the surface after a change of the buffer or of the scroll state, followed by _show
\* (the renderer's target keeps what earlier copies drew: only the rows a copy
\* writes change)
Shown(buf, t, v, b, y_start, renderRect) ==
    /\ buffer' = buf
    /\ tfa' = t
    /\ vsa' = v
    /\ bfa' = b
    /\ vssa' = y_start
    /\ show_log' = ShowPasses(t, v, b, y_start, renderRect)
    /\ window' = Blit(window, buf, ShowPasses(t, v, b, y_start, renderRect))
    /\ surf_result' = "ok"

\* an image of one colour, and a picture whose pixels are all different
BlackOf(w, h) == [y \in 0 .. (h - 1) |-> [x \in 0 .. (w - 1) |-> 0]]
PictureOf(w, h) == [y \in 0 .. (h - 1) |-> [x \in 0 .. (w - 1) |-> 10 * (y + 1) + x]]
Black == BlackOf(width, height)
Picture == PictureOf(width, height)
\* contents of a new texture
InitBuffers == {Black, Picture}

\* colours drawn by fill_rect
Colors == {1}

Backends == {"SDL2", "PG"}
\* rotation arguments given to the constructor
InitRotations == {0, 90, 360}

\* __init__ and init(): the buffer is created (SDL2: width x height as the
\* properties give them, content not initialised; PG: _width x _height, filled
\* black), then scroll window (0, height, 0), vscsad(False), _show()
SurfInit ==
    /\ backend \in Backends
    /\ is_cpython \in (IF backend = "PG" THEN {TRUE} ELSE BOOLEAN)
    /\ rotation \in InitRotations
    /\ buffer \in (IF backend = "PG" THEN {BlackOf(Width, Height)} ELSE InitBuffers)
    /\ tfa = 0
    /\ vsa = height
    /\ bfa = 0
    /\ vssa = PyFalse
    /\ show_log = ShowPasses(0, height, 0, PyFalse, NoRect)
    /\ window = Blit(Black, buffer, ShowPasses(0, height, 0, PyFalse, NoRect))
    /\ surf_result = "constructed"
    /\ devices = <<>>
    /\ rot_trail = <<>>
    /\ buf_log = <<"create">>

\* fill_rect(x, y, w, h, color)
FillRect(x, y, w, h, color) ==
    /\ Shown([r \in DOMAIN buffer |-> [c \in DOMAIN buffer[r] |->
                 IF InRect(Rect(x, y, w, h), c, r) THEN color ELSE buffer[r][c]]],
             tfa, vsa, bfa, vssa, Rect(x, y, w, h))
    /\ UNCHANGED rotvars

\* vscrdef(tfa, vsa, bfa): _BaseDisplay.vscrdef, then _show()
Vscrdef(t, v, b) ==
    /\ IF t + v + b = height
       THEN Shown(buffer, t, v, b, vssa, NoRect)
       ELSE /\ surf_result' = "ConfigurationError"
            /\ UNCHANGED <<buffer, window, tfa, vsa, bfa, vssa, show_log>>
    /\ UNCHANGED rotvars

\* vscsad(vssa) with vssa not None: _BaseDisplay.vscsad, then _show()
Vscsad(y) ==
    /\ Shown(buffer, tfa, vsa, bfa, y, NoRect)
    /\ UNCHANGED rotvars

\* rectangles filled: row bands of the full width
FillRects ==
    {Rect(0, y, width, h) : y \in Rows, h \in 1 .. 2}

SurfNext ==
    \/ \E r \in FillRects, color \in Colors :
         /\ r.y + r.h <= height
         /\ FillRect(r.x, r.y, r.w, r.h, color)
    \/ \E t \in 0 .. height, v \in 0 .. height, b \in 0 .. height :
         /\ t + v + b = height \/ <<t, v, b>> = <<1, height, 0>>
         /\ Vscrdef(t, v, b)
    \/ \E y \in Rows : Vscsad(PyInt(y))
    \/ Vscsad(PyFalse)

\* the calibration tool not run
CalIdle ==
    /\ cal_pc = "idle"
    /\ cal_rotation = 0
    /\ cal_wiring = 0
    /\ touched_zones = <<>>
    /\ touch_rotation_table = <<>>

\* no second bus engine
NoEngine ==
    [bus |-> "new", cfg |-> MkCfg(<<>>, 0, 0, 0, FALSE, 0, FALSE, 32), outputs |-> {},
     pin_masks |-> <<>>, data_regs |-> <<>>]

PeerIdle ==
    /\ peer = NoEngine
    /\ turn = 1

\* the event classes' None
None == [type |-> "None"]

\* the Poller as Poller.__init__ leaves it
NewPoller == [touched |-> FALSE, col |-> -1, row |-> -1]

\* no event source, no subscriber
EventIdle ==
    /\ pending = <<>>
    /\ ev_result = None
    /\ subscribers = <<>>
    /\ calls = <<>>
    /\ tpad = NewPoller
    /\ tpad_result = FALSE
    /\ last_touch = [kind |-> "none", pos |-> <<-1, -1>>]

\* the bus engine and the calibration tool not run, nothing else but the surface
OthersIdle == CalIdle /\ PeerIdle /\ EventIdle

\* a surface on which nothing is called
SurfIdle ==
    /\ backend = "SDL2"
    /\ is_cpython = TRUE
    /\ rotation = 0
    /\ buffer = Black
    /\ window = Black
    /\ tfa = 0
    /\ vsa = height
    /\ bfa = 0
    /\ vssa = PyFalse
    /\ show_log = <<>>
    /\ surf_result = "ok"
    /\ devices = <<>>
    /\ rot_trail = <<>>
    /\ buf_log = <<>>

\* the bus engine alone
Init == BusInit /\ SurfIdle /\ OthersIdle
Next == BusNext /\ UNCHANGED <<surfvars, rotvars, calvars, peervars, evvars>>
Spec == Init /\ [][Next]_vars

\* the SDL2 surface under CPython at rotation 0: drawing and scrolling
SurfaceInit ==
    /\ backend = "SDL2"
    /\ is_cpython = TRUE
    /\ rotation = 0
    /\ SurfInit
    /\ BusInit
    /\ levels = {}
    /\ OthersIdle
SurfaceNext == SurfNext /\ UNCHANGED <<busvars, calvars, peervars, evvars>>
SurfaceSpec == SurfaceInit /\ [][SurfaceNext]_vars

(***************************************************************************)
(* Rotation, devices and blit_rect on both display classes                 *)
(***************************************************************************)
\* color_depth, the constructors' default
ColorDepth == 16
\* PGDisplay._bytes_per_pixel
BytesPerPixel == ColorDepth \div 8

\* the helper with every value accepted
RotationHelperLax(value) == [ok |-> TRUE, value |-> value % 360]

\* _BaseDisplay._rotation_helper(value): a value that is not a multiple of 90 is
\* rejected, any other is taken modulo 360
RotationHelper(value) ==
    IF value % 90 # 0 THEN [ok |-> FALSE, value |-> value]
    ELSE [ok |-> TRUE, value |-> value % 360]

\* the image turned clockwise by a, a multiple of 90
Rotate(img, a) ==
    LET w == ImgW(img)
        h == ImgH(img)
        n == (a + 720) % 360
    IN  CASE n = 90 -> [y \in 0 .. (w - 1) |-> [x \in 0 .. (h - 1) |-> img[h - 1 - x][y]]]
          [] n = 180 -> [y \in 0 .. (h - 1) |-> [x \in 0 .. (w - 1) |-> img[h - 1 - y][w - 1 - x]]]
          [] n = 270 -> [y \in 0 .. (w - 1) |-> [x \in 0 .. (h - 1) |-> img[x][w - 1 - y]]]
          [] OTHER -> img

\* the image drawn over w x h pixels
Stretch(img, w, h) == RenderCopy(BlackOf(w, h), img, NoRect, NoRect)

Abs(n) == IF n < 0 THEN 0 - n ELSE n

\* SDL2Display.rotation, lines 252-272: a texture of self.height x self.width
\* is made and SDL_RenderCopyEx draws the old texture into it, over a
\* width x height rectangle about its centre when the angle is not +-180 and
\* over the whole of it otherwise, turned by angle about the centre
CopyEx(angle) ==
    IF Abs(angle) # 180
    THEN Rotate(Stretch(buffer, width, height), angle)
    ELSE Rotate(Stretch(buffer, height, width), angle)

\* the buffers the rotation setter can leave in self._buffer, angle # 0
NewBuffers(angle) ==
    IF backend = "PG" THEN {Rotate(buffer, angle)}
    ELSE IF is_cpython THEN {CopyEx(angle)}
    ELSE {BlackOf(height, width), PictureOf(height, width)}

\* what the rotation setter does with the buffers, in order
BufferSteps(angle) ==
    IF angle = 0 THEN <<>>
    ELSE IF backend = "SDL2" /\ ~is_cpython THEN <<"destroy_old", "create">>
    ELSE <<"create", "copy", "destroy_old">>

\* the loop over self.devices with the first device left out
DevicesRotatedButFirst(value) ==
    [i \in DOMAIN devices |->
        IF devices[i].type = "TOUCH" /\ i > 1 THEN [devices[i] EXCEPT !.rotation = value]
        ELSE devices[i]]

\* the loop over self.devices left out
DevicesNotRotated(value) == devices

\* the loop over self.devices of the rotation setter
DevicesRotated(value) ==
    [i \in DOMAIN devices |->
        IF devices[i].type = "TOUCH" THEN [devices[i] EXCEPT !.rotation = value]
        ELSE devices[i]]

\* the rotation setter of both classes, then init()
SetRotation(arg) ==
    LET helped == RotationHelper(arg)
        value == helped.value
        angle == (value % 360) - (rotation % 360)
    IN  /\ UNCHANGED <<backend, is_cpython>>
        /\ IF ~helped.ok
           THEN /\ surf_result' = "InvalidRotation"
                /\ UNCHANGED <<buffer, window, tfa, vsa, bfa, vssa, show_log>>
                /\ UNCHANGED <<rotation, devices, rot_trail, buf_log>>
           ELSE IF value = rotation
           THEN /\ surf_result' = "ok"
                /\ UNCHANGED <<buffer, window, tfa, vsa, bfa, vssa, show_log>>
                /\ UNCHANGED <<rotation, devices, rot_trail, buf_log>>
           ELSE /\ buffer' \in (IF angle # 0 THEN NewBuffers(angle) ELSE {buffer})
                /\ buf_log' = BufferSteps(angle)
                /\ rotation' = value
                /\ rot_trail' = Append(rot_trail, rotation)
                /\ devices' = DevicesRotated(value)
                /\ tfa' = 0
                /\ vsa' = LogicalHeight(value)
                /\ bfa' = 0
                /\ vssa' = PyFalse
                /\ show_log' = ShowPasses(0, LogicalHeight(value), 0, PyFalse, NoRect)
                /\ window' = Blit(BlackOf(LogicalWidth(value), LogicalHeight(value)), buffer',
                                  ShowPasses(0, LogicalHeight(value), 0, PyFalse, NoRect))
                /\ surf_result' = "ok"

DeviceTypes == {"TOUCH", "ENCODER"}

\* _BaseDisplay: a device is registered with the rotation of the surface
RegisterDevice(type) ==
    /\ Len(devices) < MaxDevices
    /\ devices' = Append(devices, [type |-> type, rotation |-> rotation])
    /\ surf_result' = "ok"
    /\ UNCHANGED <<buffer, window, tfa, vsa, bfa, vssa, show_log>>
    /\ UNCHANGED <<backend, is_cpython, rotation, rot_trail, buf_log>>

\* the entry of a device's 4-entry rotation table that is in use
TransformIndex(d) == (d.rotation \div 90) % 4

\* a source buffer of n bytes
Data(n) == [i \in 1 .. n |-> 100 + i]

\* the colour of pixel k (from 0) of a source buffer: its bytes, low byte first
PixelOf(data, k) ==
    data[k * BytesPerPixel + 1] + 256 * data[k * BytesPerPixel + 2]

\* the buffer with the pixels numbered below n of the rectangle taken from data
Written(buf, data, x, y, w, h, n) ==
    [r \in DOMAIN buf |-> [c \in DOMAIN buf[r] |->
        IF InRect(Rect(x, y, w, h), c, r) /\ (r - y) * w + (c - x) < n
        THEN PixelOf(data, (r - y) * w + (c - x))
        ELSE buf[r][c]]]

\* SDL2Display.blit_rect(buffer, x, y, w, h)
BlitRectSDL(data, x, y, w, h) ==
    LET pitch == (w * ColorDepth) \div 8
    IN  IF Len(data) # pitch * h
        THEN /\ surf_result' = "ValueError"
             /\ UNCHANGED <<buffer, window, tfa, vsa, bfa, vssa, show_log>>
        ELSE Shown(Written(buffer, data, x, y, w, h, w * h), tfa, vsa, bfa, vssa,
                   Rect(x, y, w, h))

\* PGDisplay.blit_rect(buffer, x, y, w, h): the pixels are set one by one from
\* slices of the source; a slice past the end of the source is short, and
\* color_rgb of a short slice either raises, which leaves the pixels set so far,
\* or gives a colour
BlitRectPG(data, x, y, w, h) ==
    LET whole == Min(w * h, Len(data) \div BytesPerPixel)
        padded == data \o [i \in 1 .. (w * h * BytesPerPixel) |-> 0]
    IN  IF whole = w * h
        THEN Shown(Written(buffer, data, x, y, w, h, w * h), tfa, vsa, bfa, vssa,
                   Rect(x, y, w, h))
        ELSE \/ /\ buffer' = Written(buffer, data, x, y, w, h, whole)
                /\ surf_result' = "Error"
                /\ UNCHANGED <<window, tfa, vsa, bfa, vssa, show_log>>
             \/ Shown(Written(buffer, padded, x, y, w, h, w * h), tfa, vsa, bfa, vssa,
                      Rect(x, y, w, h))

\* SDL2Display.blit_rect with the length not looked at
BlitRectSDLNoCheck(data, x, y, w, h) == BlitRectPG(data, x, y, w, h)

BlitRect(data, x, y, w, h) ==
    /\ IF backend = "PG" THEN BlitRectPG(data, x, y, w, h) ELSE BlitRectSDL(data, x, y, w, h)
    /\ UNCHANGED rotvars

\* rotation values given to the setter
RotationValues == {0, 90, 180, 270, 360, 45}

\* lengths of the source buffers given to blit_rect for a rectangle of n bytes
DataLengths(n) == {n - 1, n, n + BytesPerPixel}

\* rotation changes (at most MaxTurns of them), devices registered before the
\* first change, one pixel filled, and scrolling
RotationNext ==
    \/ \E arg \in RotationValues :
         /\ Len(rot_trail) < MaxTurns \/ ~RotationHelper(arg).ok
              \/ RotationHelper(arg).value = rotation
         /\ SetRotation(arg)
    \/ \E type \in DeviceTypes :
         /\ Len(rot_trail) <= 1
         /\ RegisterDevice(type)
    \/ rot_trail = <<>> /\ FillRect(0, 0, 1, 1, 1)
    \/ Vscrdef(1, height - 1, 0)
    \/ Vscrdef(1, height, 0)
    \/ Vscsad(PyInt(height - 1))
    \/ Vscsad(PyFalse)

\* both display classes: rotation, devices and scrolling
DisplayInit == SurfInit /\ BusInit /\ levels = {} /\ OthersIdle
RotationSpec == DisplayInit /\ [][RotationNext /\ UNCHANGED <<busvars, calvars, peervars, evvars>>]_vars

\* rectangles written by blit_rect
BlitRects == {Rect(0, 0, 1, 2), Rect(1, 0, 1, 1), Rect(0, 1, 2, 1)}

BlitNext ==
    \/ \E r \in BlitRects :
         \E n \in DataLengths(r.w * r.h * BytesPerPixel) :
            BlitRect(Data(n), r.x, r.y, r.w, r.h)
    \/ Vscsad(PyInt(1))
    \/ Vscsad(PyFalse)

\* both display classes: blit_rect
BlitSpec == DisplayInit /\ [][BlitNext /\ UNCHANGED <<busvars, calvars, peervars, evvars>>]_vars

(***************************************************************************)
(* The touch calibration tool, examples/mpdisplay_touch_test.py, on a grid  *)
(* of 2 x 2 quadrants: a touch point is the pair (x, y) of its quadrant.    *)
(***************************************************************************)
SWAP_XY == 1
REVERSE_X == 2
REVERSE_Y == 4

HasBit(mask, bit) == (mask \div bit) % 2 = 1

\* a mask applied to a point of the grid: the axes swapped first, then x
\* reversed, then y reversed
Transform(mask, pt) ==
    LET s == IF HasBit(mask, SWAP_XY) THEN <<pt[2], pt[1]>> ELSE pt
        rx == IF HasBit(mask, REVERSE_X) THEN <<1 - s[1], s[2]>> ELSE s
    IN  IF HasBit(mask, REVERSE_Y) THEN <<rx[1], 1 - rx[2]>> ELSE rx

\* zone = (touched_point[1] // half_height) * 2 + (touched_point[0] // half_width)
Zone(pt) == pt[2] * 2 + pt[1]

\* the quadrant shown for the q-th touch: for y in range(2): for x in range(2)
Quadrant(q) == <<q % 2, q \div 2>>

\* the zone a panel wired as mask d reports for a touch in quadrant q
Reported(d, q) == Zone(Transform(d, Quadrant(q)))

Invalid == 8

\* the if / elif chain with the sequences of REVERSE_X and REVERSE_Y exchanged
MaskOfMixed(zones) ==
    CASE zones = <<0, 1, 2, 3>> -> 0
      [] zones = <<1, 0, 3, 2>> -> REVERSE_Y
      [] zones = <<2, 3, 0, 1>> -> REVERSE_X
      [] zones = <<3, 2, 1, 0>> -> REVERSE_X + REVERSE_Y
      [] zones = <<0, 2, 1, 3>> -> SWAP_XY
      [] zones = <<2, 0, 3, 1>> -> SWAP_XY + REVERSE_X
      [] zones = <<1, 3, 0, 2>> -> SWAP_XY + REVERSE_Y
      [] zones = <<3, 1, 2, 0>> -> SWAP_XY + REVERSE_X + REVERSE_Y
      [] OTHER -> Invalid

\* the if / elif chain of loop(): the mask of a sequence of touched zones
MaskOf(zones) ==
    CASE zones = <<0, 1, 2, 3>> -> 0
      [] zones = <<1, 0, 3, 2>> -> REVERSE_X
      [] zones = <<2, 3, 0, 1>> -> REVERSE_Y
      [] zones = <<3, 2, 1, 0>> -> REVERSE_X + REVERSE_Y
      [] zones = <<0, 2, 1, 3>> -> SWAP_XY
      [] zones = <<2, 0, 3, 1>> -> SWAP_XY + REVERSE_X
      [] zones = <<1, 3, 0, 2>> -> SWAP_XY + REVERSE_Y
      [] zones = <<3, 1, 2, 0>> -> SWAP_XY + REVERSE_X + REVERSE_Y
      [] OTHER -> Invalid

Masks == 0 .. 7

\* loop() is entered, or the for loop goes to its next rotation: the panel's
\* wiring at this rotation is any of the eight
CalBegin(d) ==
    /\ cal_pc \in {"idle", "next"}
    /\ cal_pc' = "touch"
    /\ cal_rotation' = (IF cal_pc = "idle" THEN 0 ELSE cal_rotation + 90)
    /\ touch_rotation_table' = (IF cal_pc = "idle" THEN <<>> ELSE touch_rotation_table)
    /\ cal_wiring' = d
    /\ touched_zones' = <<>>

\* the user touches quadrant u while quadrant Len(touched_zones) is shown
CalTouch(u) ==
    /\ cal_pc = "touch"
    /\ Len(touched_zones) < 4
    /\ touched_zones' = Append(touched_zones, Zone(Transform(cal_wiring, Quadrant(u))))
    /\ UNCHANGED <<cal_pc, cal_rotation, cal_wiring, touch_rotation_table>>

\* the four zones are mapped to a mask, or loop() returns False and is run again
CalMap ==
    /\ cal_pc = "touch"
    /\ Len(touched_zones) = 4
    /\ IF MaskOf(touched_zones) = Invalid
       THEN /\ cal_pc' = "idle"
            /\ UNCHANGED touch_rotation_table
       ELSE /\ touch_rotation_table' = Append(touch_rotation_table, MaskOf(touched_zones))
            /\ cal_pc' = (IF cal_rotation = 270 THEN "done" ELSE "next")
    /\ UNCHANGED <<cal_rotation, cal_wiring, touched_zones>>

CalNext ==
    \/ \E d \in Masks : CalBegin(d)
    \/ \E u \in {Len(touched_zones), 0} : CalTouch(u)
    \/ CalMap

\* the calibration tool alone
CalibrationInit == CalIdle /\ PeerIdle /\ EventIdle /\ BusInit /\ levels = {} /\ SurfIdle
CalibrationSpec == CalibrationInit /\ [][CalNext /\ UNCHANGED <<busvars, surfvars, rotvars, peervars, evvars>>]_vars

(***************************************************************************)
(* Two I80Bus instances with distinct pins on one GPIO port, called in     *)
(* turn by one caller.                                                     *)
(***************************************************************************)
\* the attributes of the instance the bus variables belong to
Engine ==
    [bus |-> bus, cfg |-> cfg, outputs |-> outputs, pin_masks |-> pin_masks,
     data_regs |-> data_regs]

\* between two calls the caller goes on with the other instance
Switch ==
    /\ pc = "idle"
    /\ peer' = Engine
    /\ bus' = peer.bus
    /\ cfg' = peer.cfg
    /\ outputs' = peer.outputs
    /\ pin_masks' = peer.pin_masks
    /\ data_regs' = peer.data_regs
    /\ turn' = 3 - turn
    /\ UNCHANGED <<levels, pc, tx_call, tx_log>>

\* constructor arguments of the first and of the second instance, on either family
PairConfigs(t) ==
    IF t = 1
    THEN { MkCfg(<<0, 1, 2, 3, 4, 5, 6, 7>>, 8, 9, 10, FALSE, 1, FALSE, ppp) : ppp \in {32, 16} }
    ELSE { MkCfg(<<16, 17, 18, 19, 20, 21, 22, 23>>, 24, 25, 26, FALSE, 1, FALSE, ppp)
               : ppp \in {32, 16} }
           \cup { MkCfg(<<31, 32, 33, 34, 35, 36, 37, 38>>, 40, 41, 42, FALSE, 1, FALSE, 32) }

\* the two instances run on the same hardware and share no pin
Apart(c, e) ==
    e.bus # "new" =>
        /\ c.pins_per_port = e.cfg.pins_per_port
        /\ (Range(c.pins) \cup {c.dc, c.cs, c.wr})
               \cap (Range(e.cfg.pins) \cup {e.cfg.dc, e.cfg.cs, e.cfg.wr}) = {}

\* data sequences handed to tx_param by the caller of two instances
PairData == {<<>>, <<0>>, <<255>>}

TwoBusNext ==
    \/ \E c \in PairConfigs(turn) : Apart(c, peer) /\ Construct(c) /\ UNCHANGED peervars
    \/ \E has_cmd \in BOOLEAN, data \in PairData :
         \E cmd \in (IF has_cmd THEN Bytes ELSE {0}) :
            TxEnter(has_cmd, cmd, data # <<>>, data) /\ UNCHANGED peervars
    \/ TxCmd /\ UNCHANGED peervars
    \/ TxData /\ UNCHANGED peervars
    \/ TxExit /\ UNCHANGED peervars
    \/ TxReturn /\ UNCHANGED peervars
    \/ Switch

TwoBusInit == BusInit /\ SurfIdle /\ OthersIdle
TwoBusSpec ==
    TwoBusInit /\ [][TwoBusNext /\ UNCHANGED <<surfvars, rotvars, calvars, evvars>>]_vars

(***************************************************************************)
(* Events: SDL2EventQueue.read / PGEventQueue.read, the display's poll()   *)
(* and subscribe(), and the Poller of configs/hardware_setup.py.           *)
(***************************************************************************)
\* SDL_BUTTON_LMASK, SDL_BUTTON_MMASK, SDL_BUTTON_RMASK
SDL_BUTTON_LMASK == 1
SDL_BUTTON_MMASK == 2
SDL_BUTTON_RMASK == 4

\* the event types the library hands on (Events.filter), and one it does not
EventsFilter == {"MOUSEMOTION", "MOUSEBUTTONDOWN", "MOUSEBUTTONUP", "KEYDOWN"}
EventTypes == EventsFilter \cup {"WINDOWEVENT"}

\* an event of the underlying source: for a motion, state is the mask of the
\* buttons held; for a button event, button is the button's number
Raw(type, pos, button, state) == [type |-> type, pos |-> pos, button |-> button, state |-> state]

\* the events that arrive
RawEvents ==
    { Raw("MOUSEMOTION", <<1, 2>>, 0, SDL_BUTTON_LMASK + SDL_BUTTON_RMASK),
      Raw("MOUSEMOTION", <<2, 2>>, 0, SDL_BUTTON_RMASK),
      Raw("MOUSEBUTTONDOWN", <<0, 0>>, 1, 0),
      Raw("MOUSEBUTTONDOWN", <<1, 1>>, 3, 0),
      Raw("MOUSEBUTTONUP", <<1, 3>>, 1, 0),
      Raw("MOUSEBUTTONUP", <<0, 2>>, 3, 0),
      Raw("WINDOWEVENT", <<0, 0>>, 0, 0) }

\* SDL2EventQueue._convert: a motion gets the tuple (l, m, r) of the buttons held
Convert(e) ==
    [type |-> e.type, pos |-> e.pos, button |-> e.button,
     buttons |-> IF e.type = "MOUSEMOTION"
                 THEN << IF HasBit(e.state, SDL_BUTTON_LMASK) THEN 1 ELSE 0,
                         IF HasBit(e.state, SDL_BUTTON_MMASK) THEN 1 ELSE 0,
                         IF HasBit(e.state, SDL_BUTTON_RMASK) THEN 1 ELSE 0 >>
                 ELSE <<0, 0, 0>>]

\* read() with an event that is not in the filter left in the source
ReadKeepFiltered(q) ==
    IF q = <<>> THEN [event |-> None, rest |-> q]
    ELSE IF Head(q).type \in EventsFilter THEN [event |-> Convert(Head(q)), rest |-> Tail(q)]
    ELSE [event |-> None, rest |-> q]

\* SDL2EventQueue.read, PGEventQueue.read: SDL_PollEvent / pg.event.poll take the
\* oldest event out of the source, if there is one, and do not wait for one
Read(q) ==
    IF q = <<>> THEN [event |-> None, rest |-> q]
    ELSE [event |-> IF Head(q).type \in EventsFilter THEN Convert(Head(q)) ELSE None,
          rest |-> Tail(q)]

\* the callbacks subscribed: the Poller's (hardware_setup.py line 45) and another
TouchTypes == {"MOUSEMOTION", "MOUSEBUTTONDOWN", "MOUSEBUTTONUP"}
Subscriptions ==
    { [cb |-> "tpad", filter |-> TouchTypes],
      [cb |-> "keys", filter |-> {"KEYDOWN", "MOUSEBUTTONDOWN"}] }

\* the calls poll() makes for event e with the subscribers in reverse order
RECURSIVE DispatchLastFirst(_, _, _)
DispatchLastFirst(subs, i, e) ==
    IF i > Len(subs) THEN <<>>
    ELSE DispatchLastFirst(subs, i + 1, e)
            \o (IF e.type \in subs[i].filter THEN <<[sub |-> i, cb |-> subs[i].cb, event |-> e]>>
                ELSE <<>>)

\* _BaseDisplay.poll: the calls it makes for event e, from subscriber i on
RECURSIVE Dispatch(_, _, _)
Dispatch(subs, i, e) ==
    IF i > Len(subs) THEN <<>>
    ELSE (IF e.type \in subs[i].filter THEN <<[sub |-> i, cb |-> subs[i].cb, event |-> e]>>
          ELSE <<>>)
            \o Dispatch(subs, i + 1, e)

\* Poller.callback with the button left out of account
CallbackAnyButton(p, event) ==
    IF event.type \in {"MOUSEMOTION", "MOUSEBUTTONDOWN"}
    THEN [touched |-> TRUE, col |-> event.pos[1], row |-> event.pos[2]]
    ELSE IF event.type = "MOUSEBUTTONUP"
    THEN [p EXCEPT !.touched = FALSE]
    ELSE p

\* Poller.callback(event)
Callback(p, event) ==
    IF event.type = "MOUSEMOTION" /\ event.buttons[1] = 1
    THEN [touched |-> TRUE, col |-> event.pos[1], row |-> event.pos[2]]
    ELSE IF event.type = "MOUSEBUTTONDOWN" /\ event.button = 1
    THEN [touched |-> TRUE, col |-> event.pos[1], row |-> event.pos[2]]
    ELSE IF event.type = "MOUSEBUTTONUP" /\ event.button = 1
    THEN [p EXCEPT !.touched = FALSE]
    ELSE p

\* the Poller after the calls of one poll()
RECURSIVE Called(_, _)
Called(p, cs) ==
    IF cs = <<>> THEN p
    ELSE Called(IF Head(cs).cb = "tpad" THEN Callback(p, Head(cs).event) ELSE p, Tail(cs))

\* what a button-1 event is to the touch pad: "down", "motion", "up", or "other"
TouchKind(event) ==
    IF event.type = "MOUSEBUTTONDOWN" /\ event.button = 1 THEN "down"
    ELSE IF event.type = "MOUSEMOTION" /\ event.buttons[1] = 1 THEN "motion"
    ELSE IF event.type = "MOUSEBUTTONUP" /\ event.button = 1 THEN "up"
    ELSE "other"

\* the record of the button-1 events given to the Poller, after calls cs
RECURSIVE Touches(_, _)
Touches(t, cs) ==
    IF cs = <<>> THEN t
    ELSE Touches(IF Head(cs).cb # "tpad" \/ TouchKind(Head(cs).event) = "other" THEN t
                 ELSE [kind |-> TouchKind(Head(cs).event),
                       pos |-> IF TouchKind(Head(cs).event) = "up" THEN t.pos
                               ELSE Head(cs).event.pos],
                 Tail(cs))

\* an event arrives at the underlying source
Arrive(e) ==
    /\ Len(pending) < MaxPending
    /\ pending' = Append(pending, e)
    /\ UNCHANGED <<ev_result, subscribers, calls, tpad, tpad_result, last_touch>>

\* display_drv.subscribe(callback, event_types)
Subscribe(s) ==
    /\ Len(subscribers) < MaxSubscribers
    /\ subscribers' = Append(subscribers, s)
    /\ UNCHANGED <<pending, ev_result, calls, tpad, tpad_result, last_touch>>

\* the event queue's read(), called on its own
QueueRead ==
    /\ pending' = Read(pending).rest
    /\ ev_result' = Read(pending).event
    /\ calls' = <<>>
    /\ UNCHANGED <<subscribers, tpad, tpad_result, last_touch>>

\* display_drv.poll(): one read(), then the subscribers of the event are called
Polled ==
    LET e == Read(pending).event
        cs == IF e = None THEN <<>> ELSE Dispatch(subscribers, 1, e)
    IN  /\ pending' = Read(pending).rest
        /\ ev_result' = e
        /\ calls' = cs
        /\ tpad' = Called(tpad, cs)
        /\ last_touch' = Touches(last_touch, cs)

Poll == Polled /\ UNCHANGED <<subscribers, tpad_result>>

\* Poller.poll(): self._poll_func(), then the touched flag is returned
PollerPoll ==
    /\ Polled
    /\ tpad_result' = tpad'.touched
    /\ UNCHANGED subscribers

EventNext ==
    \/ \E e \in RawEvents : Arrive(e)
    \/ \E s \in Subscriptions : Subscribe(s)
    \/ QueueRead
    \/ Poll
    \/ PollerPoll

EventInit == BusInit /\ levels = {} /\ SurfIdle /\ OthersIdle
EventSpec ==
    EventInit /\ [][EventNext /\ UNCHANGED <<busvars, surfvars, rotvars, calvars, peervars>>]_vars

(***************************************************************************)
(* Observations on the port state and on the record of a call.             *)
(***************************************************************************)
\* the 8 data pins hold exactly the bits of v, bit i on the i-th listed pin
DataPinsEncode(lv, v) ==
    \A i \in DOMAIN cfg.pins : (cfg.pins[i] \in lv) <=> BitSet(v, i - 1)

WrIsActive(lv) == (cfg.wr \in lv) <=> ~cfg.pclk_active_neg
CsIsActive(lv) == (cfg.cs \in lv) <=> cfg.cs_active_high

\* the port state before the k-th write of the call
Before(k) == tx_log[k - 1].lv

\* the k-th write of the call takes write-strobe from inactive to active
StrobeEdge(k) ==
    /\ k \in DOMAIN tx_log
    /\ k > 1
    /\ ~WrIsActive(Before(k))
    /\ WrIsActive(tx_log[k].lv)

OpsAt(op) == {k \in DOMAIN tx_log : tx_log[k].op = op}
Strobes == OpsAt("wr_active")

\* the bytes strobed by the call, in order
RECURSIVE StrobedFrom(_)
StrobedFrom(k) ==
    IF k > Len(tx_log) THEN <<>>
    ELSE IF tx_log[k].op = "wr_active" THEN <<tx_log[k].byte>> \o StrobedFrom(k + 1)
    ELSE StrobedFrom(k + 1)
Strobed == StrobedFrom(1)

\* the strobe before strobe k of the same call (0 when k is the first)
PrevStrobe(k) ==
    IF \E j \in Strobes : j < k
    THEN CHOOSE j \in Strobes : j < k /\ \A i \in Strobes : i < k => i <= j
    ELSE 0

\* the data-pin register writes made for the byte strobed at k
DataWritesOf(k) ==
    {j \in OpsAt("data_set") \cup OpsAt("data_clr") : j < k /\ j > PrevStrobe(k)}

(***************************************************************************)
(* C1: at every write-strobe active edge of a transmit the 8 data pins     *)
(* hold exactly the bits of the byte being strobed, elided bytes included. *)
(***************************************************************************)
C1_DataPinsAtEdge ==
    \A k \in DOMAIN tx_log :
        StrobeEdge(k) => tx_log[k].byte >= 0 /\ DataPinsEncode(tx_log[k].lv, tx_log[k].byte)

(***************************************************************************)
(* C2: for every byte value v and every assignment of 8 distinct data      *)
(* pins, the lookup table's set-mask and clear-mask for v, applied in      *)
(* every port group to an all-clear port state, leave the i-th data pin    *)
(* at 1 exactly when bit i of v is 1 and every other pin of the group at 0.*)
(***************************************************************************)
ApplyMasks(lv, n, set_mask, clr_mask) ==
    (lv \cup {(n - 1) * LutBits + b : b \in set_mask})
        \ {(n - 1) * LutBits + b : b \in clr_mask}

RECURSIVE ApplyAll(_, _, _)
ApplyAll(lv, n, v) ==
    IF n > Len(pin_masks) THEN lv
    ELSE ApplyAll(ApplyMasks(lv, n, lookup_tables[n][v],
                             Xor(lookup_tables[n][v], pin_masks[n])), n + 1, v)

LutEncodes ==
    \A v \in 0 .. (lut_len - 1) :
        ApplyAll({}, 1, v) = {cfg.pins[i] : i \in {j \in DOMAIN cfg.pins : BitSet(v, j - 1)}}

EightDistinct(pins) == Len(pins) = BusWidth /\ Cardinality(Range(pins)) = BusWidth

C2_LutEncodesEveryAssignment ==
    (bus # "new" /\ EightDistinct(cfg.pins)) => (bus = "ready" /\ LutEncodes)

(***************************************************************************)
(* C3: the clear-mask written equals the group's pin-mask XOR the set-mask *)
(* (disjoint, together exactly the group's data pins), and a non-elided    *)
(* byte write leaves the data pins encoding exactly the new byte whatever  *)
(* they held before.                                                       *)
(***************************************************************************)
C3_MasksPartition ==
    \A k \in OpsAt("data_set") :
        LET n == CHOOSE m \in DOMAIN data_regs : data_regs[m][1] = tx_log[k].reg
        IN  /\ tx_log[k + 1].op = "data_clr"
            /\ tx_log[k + 1].reg = data_regs[n][2]
            /\ tx_log[k + 1].val = Xor(tx_log[k].val, pin_masks[n])
            /\ tx_log[k].val \cap tx_log[k + 1].val = {}
            /\ tx_log[k].val \cup tx_log[k + 1].val = pin_masks[n]

C3_NoStaleBit ==
    /\ C3_MasksPartition
    /\ \A k \in Strobes :
         DataWritesOf(k) # {} => DataPinsEncode(Before(k), tx_log[k].byte)

(***************************************************************************)
(* C4: in every transmit chip-select is driven active before any other     *)
(* register write and inactive after the last strobe; a present command    *)
(* (0 included) is strobed alone in command mode before any data byte; the *)
(* data bytes are strobed in data mode in sequence order; every strobe     *)
(* edge occurs while chip-select is active.                                *)
(***************************************************************************)
ExpectedStrobed ==
    (IF tx_call.has_cmd THEN <<tx_call.cmd>> ELSE <<>>)
        \o (IF tx_call.has_data THEN tx_call.data ELSE <<>>)

C4_WriteOrder ==
    /\ tx_log # <<>> =>
         /\ tx_log[1].op = "cs_active"
         /\ OpsAt("cs_active") = {1}
    /\ pc = "returned" =>
         /\ OpsAt("cs_inactive") = {Len(tx_log)}
         /\ Strobed = ExpectedStrobed
         /\ OpsAt("dc_cmd") = (IF tx_call.has_cmd THEN {2} ELSE {})
         /\ Cardinality(OpsAt("dc_data")) = (IF tx_call.has_data THEN 1 ELSE 0)
         /\ \A d \in OpsAt("dc_data") :
              Cardinality({k \in Strobes : k < d}) = (IF tx_call.has_cmd THEN 1 ELSE 0)
    /\ pc # "returned" => OpsAt("cs_inactive") = {}

C4_TransmitSequence ==
    /\ C4_WriteOrder
    /\ \A k \in DOMAIN tx_log : StrobeEdge(k) => CsIsActive(tx_log[k].lv)

(***************************************************************************)
(* C5: per byte, write-strobe is driven inactive, then the data-pin writes *)
(* are made (none when elided), then write-strobe is driven active; a      *)
(* transmit with a command and n data bytes makes exactly 1+n              *)
(* inactive-to-active strobe edges.                                        *)
(***************************************************************************)
Edges == {k \in DOMAIN tx_log : StrobeEdge(k)}

C5_StrobePerByte ==
    /\ \A k \in Strobes :
         LET first == PrevStrobe(k) + 1
             w == CHOOSE j \in OpsAt("wr_inactive") : j > PrevStrobe(k) /\ j < k
         IN  /\ \E j \in OpsAt("wr_inactive") : j > PrevStrobe(k) /\ j < k
             /\ \A j \in (w + 1) .. (k - 1) : tx_log[j].op \in {"data_set", "data_clr"}
             /\ \A j \in first .. (w - 1) : tx_log[j].op \in {"cs_active", "dc_cmd", "dc_data"}
             /\ ~WrIsActive(tx_log[w].lv)
             /\ WrIsActive(tx_log[k].lv)
    /\ pc = "returned" => Cardinality(Edges) = Len(ExpectedStrobed)

C5_Witness ==
    /\ pc = "returned"
    /\ tx_call.has_cmd
    /\ Len(tx_call.data) = MaxData
    /\ Cardinality(Edges) = 1 + MaxData
    /\ \E k \in Strobes : DataWritesOf(k) = {}

(***************************************************************************)
(* C6: with data pins [9,46,3,8,18,17,16,15], writing 0x36 then 0x36       *)
(* issues exactly one set/clear register pair (the second write is         *)
(* elided); writing 0x36 then 0x00 issues a second pair whose clear-mask   *)
(* equals the group's full pin-mask.                                       *)
(***************************************************************************)
Pairs == OpsAt("data_set")
Groups == {n \in DOMAIN pin_masks : pin_masks[n] # {}}
\* the strobes of the call, in order
NthStrobe(i) == CHOOSE k \in Strobes : Cardinality({j \in Strobes : j < k}) = i - 1

WroteData(d) ==
    /\ cfg = CfgWT32
    /\ pc = "returned"
    /\ ~tx_call.has_cmd
    /\ tx_call.has_data
    /\ tx_call.data = d

\* the claim as stated: one pair in all for 0x36, 0x36
C6_OnePairAsStated ==
    /\ WroteData(<<54, 54>>) => Cardinality(Pairs) = 1
    /\ WroteData(<<54, 0>>) =>
         /\ Cardinality(Pairs) = 2
         /\ \A k \in Pairs : k > NthStrobe(1) =>
              \E n \in Groups : tx_log[k + 1].val = pin_masks[n]

\* amended: one pair per port group that holds data pins (two groups here)
C6_OnePairPerGroup ==
    /\ WroteData(<<54, 54>>) =>
         /\ Cardinality(Pairs) = Cardinality(Groups)
         /\ Cardinality(DataWritesOf(NthStrobe(1))) = 2 * Cardinality(Groups)
         /\ DataWritesOf(NthStrobe(2)) = {}
    /\ WroteData(<<54, 0>>) =>
         /\ Cardinality(Pairs) = 2 * Cardinality(Groups)
         /\ \A n \in Groups :
              \E k \in Pairs :
                 /\ k > NthStrobe(1)
                 /\ tx_log[k].reg = data_regs[n][1]
                 /\ tx_log[k].val = {}
                 /\ tx_log[k + 1].reg = data_regs[n][2]
                 /\ tx_log[k + 1].val = pin_masks[n]

C6_Witness ==
    /\ WroteData(<<54, 54>>)
    /\ Cardinality(Groups) = 2
    /\ Cardinality(Pairs) = 2

(***************************************************************************)
(* C7: transmitting the same byte twice in a row leaves the port state     *)
(* after the second byte's set/clear step identical to the state after     *)
(* the first byte's set/clear step (between a command and a data byte the  *)
(* data/command line itself is switched, every other pin is identical).    *)
(***************************************************************************)
SameByteTwice(j, k) ==
    /\ k \in Strobes
    /\ j = PrevStrobe(k)
    /\ j # 0
    /\ tx_log[j].byte = tx_log[k].byte

C7_Idempotent ==
    \A k \in Strobes :
        LET j == PrevStrobe(k)
        IN  SameByteTwice(j, k) =>
              IF \E d \in OpsAt("dc_data") : j < d /\ d < k
              THEN Before(k) \ {cfg.dc} = Before(j) \ {cfg.dc}
              ELSE Before(k) = Before(j)

(***************************************************************************)
(* C8: a data-pin list whose length is not 8 is rejected during setup,     *)
(* before any pin is configured and before any lookup table or bus state   *)
(* exists; after a successful construction the tables are complete, so no  *)
(* transmit raises a configuration error.                                  *)
(***************************************************************************)
C8_WidthRejectedAtSetup ==
    /\ (bus # "new" /\ Len(cfg.pins) # BusWidth) =>
         /\ bus = "ValueError"
         /\ outputs = {}
         /\ pin_masks = <<>>
         /\ data_regs = <<>>
         /\ lookup_tables = <<>>
    /\ bus = "ready" => Len(cfg.pins) = BusWidth
    /\ (bus = "ready" /\ pc = "idle") =>
         /\ \A i \in DOMAIN cfg.pins :
              /\ (cfg.pins[i] \div LutBits) + 1 \in DOMAIN lookup_tables
              /\ DOMAIN lookup_tables[(cfg.pins[i] \div LutBits) + 1] = 0 .. (lut_len - 1)
    /\ pc # "idle" => bus = "ready"

C8_Witness ==
    /\ bus = "ValueError"
    /\ Len(cfg.pins) # BusWidth

(***************************************************************************)
(* Observations on the composited frame                                    *)
(***************************************************************************)
\* the scroll start address is an int that lies inside the scroll area
StartInScrollArea == ~vssa.bool /\ vssa.v >= tfa /\ vssa.v < tfa + vsa

\* _show takes the scrolling branch
Scrolling == ~PyEq(vssa, PyFalse)

\* no two rows of the buffer hold the same pixels
RowsDistinct == \A r1 \in Rows, r2 \in Rows : r1 # r2 => buffer[r1] # buffer[r2]

\* the buffer row that lies k rows after row y of the scroll area, wrapping
ScrollRow(y, k) == tfa + ((y - tfa + k) % vsa)

PassNames == [i \in DOMAIN show_log |-> show_log[i].name]

\* rows of a rectangle
RectRows(r) == {y \in Rows : y >= r.y /\ y < r.y + r.h}

\* the copies of the last _show named n
PassesNamed(n) == {i \in DOMAIN show_log : show_log[i].name = n}

\* the four copies in their order, the fixed ones present when their area is not empty
FourPasses ==
    (IF tfa > 0 THEN <<"tfa">> ELSE <<>>) \o <<"vsa_top", "vsa_btm">>
        \o (IF bfa > 0 THEN <<"bfa">> ELSE <<>>)

\* the band [tfa, tfa + vsa) of the window
Band == {y \in Rows : y >= tfa /\ y < tfa + vsa}

\* passes 2 and 3 write each row of the band once and read each scroll-area row once
BandFilledOnce ==
    \A i \in PassesNamed("vsa_top"), j \in PassesNamed("vsa_btm") :
        /\ RectRows(show_log[i].dst) \cup RectRows(show_log[j].dst) = Band
        /\ RectRows(show_log[i].dst) \cap RectRows(show_log[j].dst) = {}
        /\ show_log[i].dst.h + show_log[j].dst.h = vsa
        /\ RectRows(show_log[i].src) \cup RectRows(show_log[j].src) = Band
        /\ RectRows(show_log[i].src) \cap RectRows(show_log[j].src) = {}
        /\ show_log[i].src.h + show_log[j].src.h = vsa
        /\ show_log[i].src.y = vssa.v
        /\ show_log[j].src.y = tfa

\* every row of the fixed regions shows the buffer row of the same position
FixedRowsInPlace == \A y \in Rows \ Band : window[y] = buffer[y]

\* the band shows the scroll-area rows in order from the start row, wrapping
BandRowsInOrder == \A k \in 0 .. (vsa - 1) : window[tfa + k] = buffer[ScrollRow(vssa.v, k)]

DefaultScroll == tfa = 0 /\ vsa = height /\ bfa = 0 /\ vssa = PyFalse

TouchDevices == {i \in DOMAIN devices : devices[i].type = "TOUCH"}

\* the last two values of the rotation before the current one
TrailEnds(a, b) ==
    /\ Len(rot_trail) >= 2
    /\ rot_trail[Len(rot_trail) - 1] = a
    /\ rot_trail[Len(rot_trail)] = b

\* C11: in every reachable state, after any sequence of vscrdef, vscsad and
\* rotation changes, tfa + vsa + bfa equals the current logical height and the
\* scroll start is the disabled sentinel or lies within [0, vsa).
C11_ScrollInvariants ==
    /\ tfa + vsa + bfa = height
    /\ vssa = PyFalse \/ (~vssa.bool /\ vssa.v >= 0 /\ vssa.v < vsa)

\* C12: a newly constructed surface has scroll window (0, height, 0) and the
\* disabled sentinel as scroll start, and in that state a frame is a direct copy
\* of the backing buffer: the output is the buffer, every row at its own position.
C12_DefaultIsDirectCopy ==
    /\ surf_result = "constructed" =>
         /\ DefaultScroll
         /\ show_log = <<Pass("direct", NoRect, NoRect)>>
         /\ window = buffer
    /\ DefaultScroll => \A i \in DOMAIN show_log : show_log[i].name = "direct"

\* C13: in every reachable state, directly after construction with any rotation
\* argument included, the rotation is one of 0, 90, 180, 270.
C13_RotationNormalized == rotation \in {0, 90, 180, 270}

\* C14: setting the rotation to a value that is not a multiple of 90 is rejected
\* with an error and leaves rotation, logical width and height, backing buffer,
\* output, scroll window, scroll start and every device's rotation unchanged.
C14_InvalidRotationRejected ==
    [][\A arg \in RotationValues :
          (arg % 90 # 0 /\ SetRotation(arg)) =>
              /\ surf_result' = "InvalidRotation"
              /\ UNCHANGED <<rotation, buffer, window, tfa, vsa, bfa, vssa, devices>>
              /\ width' = width
              /\ height' = height]_vars

\* a rejected rotation on a turned surface with a device
C14_Witness ==
    /\ surf_result = "InvalidRotation"
    /\ rotation = 90
    /\ rot_trail # <<>>
    /\ devices # <<>>

\* C15: after construction and after any sequence of rotation changes the
\* logical width and height are the physical ones, swapped exactly when the
\* rotation is 90 or 270, and the backing buffer has the logical width and height.
C15_DimensionsFollowRotation ==
    /\ width = (IF rotation \in {90, 270} THEN Height ELSE Width)
    /\ height = (IF rotation \in {90, 270} THEN Width ELSE Height)
    /\ ImgW(buffer) = width
    /\ ImgH(buffer) = height

\* C16: on every rotation change the new backing buffer holds the previous
\* buffer's content turned by the change of rotation, the previous buffer is
\* destroyed only after the new one is created and populated, and the output
\* shows the turned content.
C16_BufferRebuilt ==
    [][(rotation' # rotation /\ (rotation' - rotation) % 360 # 0) =>
          /\ buffer' = Rotate(buffer, rotation' - rotation)
          /\ buf_log' = <<"create", "copy", "destroy_old">>
          /\ window' = buffer']_vars

\* C17: after every successful rotation change every touch device registered on
\* the surface has the rotation of the surface, so the entry of its transform
\* table in use is the one of the current rotation.
C17_TouchDevicesFollow ==
    \A i \in TouchDevices :
        /\ devices[i].rotation = rotation
        /\ TransformIndex(devices[i]) = (rotation \div 90) % 4

\* a touch device on a surface turned twice
C17_Witness ==
    /\ TouchDevices # {}
    /\ Len(rot_trail) >= 2
    /\ rotation = 270
    /\ \A i \in TouchDevices : devices[i].rotation = 270

\* the surface is as it was at rotation 0: logical width and height, and the
\* rotation-0 entry of every touch device's transform table in use
AsAtRotation0 ==
    /\ width = Width
    /\ height = Height
    /\ \A i \in TouchDevices : TransformIndex(devices[i]) = 0

\* C18, as stated: for r in {90, 180, 270}, from rotation 0, rotation r and then
\* rotation 360 - r restore the original logical width and height and the
\* identity coordinate transform.
C18_RoundTripAsStated ==
    \A r \in {90, 180, 270} :
        (TrailEnds(0, r) /\ rotation = 360 - r) => AsAtRotation0

\* C18, amended: for r in {90, 180, 270}, from rotation 0, rotation r and then
\* rotation 0 (or 360, stored as 0) restore the original logical width and
\* height and put the rotation-0 entry of every touch device's transform table
\* back in use.
C18_RoundTripToZero ==
    \A r \in {90, 180, 270} :
        (TrailEnds(0, r) /\ rotation = 0) => AsAtRotation0

\* a surface with a touch device, turned from 0 to 90 and back to 0
C18_Witness ==
    /\ TrailEnds(0, 90)
    /\ rotation = 0
    /\ TouchDevices # {}
    /\ AsAtRotation0

\* C20: a blit whose source length differs from w * h * bytes-per-pixel is
\* rejected with an error before any pixel of the backing buffer or of the
\* output is written, on every backend.
C20_BlitSizeChecked ==
    [][\A r \in BlitRects : \A n \in DataLengths(r.w * r.h * BytesPerPixel) :
          (n # r.w * r.h * BytesPerPixel /\ BlitRect(Data(n), r.x, r.y, r.w, r.h)) =>
              /\ surf_result' = "ValueError"
              /\ UNCHANGED <<buffer, window>>]_vars

\* the zones reported when each quadrant shown is the one touched
RightZones(d) == [q \in 1 .. 4 |-> Reported(d, q - 1)]

\* C19: for each of the eight ways a panel's raw coordinates can differ from the
\* displayed frame, touching the four quadrants in order gives a zone sequence
\* that the tool maps to a mask whose transform (swap, then reverse x, then
\* reverse y) turns the reported zones back into 0, 1, 2, 3; the eight sequences
\* are pairwise distinct and their masks are the eight masks 0..7.
C19_MaskUndoesWiring ==
    /\ (cal_pc = "touch" /\ touched_zones = RightZones(cal_wiring)) =>
         /\ MaskOf(touched_zones) \in Masks
         /\ \A q \in 0 .. 3 :
              Zone(Transform(MaskOf(touched_zones),
                             <<touched_zones[q + 1] % 2, touched_zones[q + 1] \div 2>>)) = q
    /\ cal_pc = "idle" =>
         /\ \A d1 \in Masks, d2 \in Masks : d1 # d2 => RightZones(d1) # RightZones(d2)
         /\ {MaskOf(RightZones(d)) : d \in Masks} = Masks

\* four quadrants touched in order on a panel with swapped axes and reversed x,
\* after the table got the masks of two rotations
C19_Witness ==
    /\ cal_pc = "touch"
    /\ cal_wiring = SWAP_XY + REVERSE_X
    /\ touched_zones = RightZones(cal_wiring)
    /\ Len(touch_rotation_table) = 2
    /\ MaskOf(touched_zones) # cal_wiring

(***************************************************************************)
(* I80Bus._write_slow, the reference write routine (not called by          *)
(* tx_param).                                                              *)
(***************************************************************************)
\* lines 229-244: the two words written for group n (1-based here) and value val;
\* machine.mem32 keeps the low 32 bits of what it is given
SlowWords(ppp, n, val) ==
    LET tx_value == lookup_tables[n][val]
        clear == Xor(tx_value, pin_masks[n])
    IN  IF ppp = LutBits
        THEN <<tx_value, clear>>
        ELSE << (tx_value \cap Lo16)
                    \cup {b + HalfBits : b \in {c \in clear : c + HalfBits < LutBits}},
                {b - HalfBits : b \in tx_value \cap Hi16} \cup (clear \cap Hi16) >>

\* the group (1-based) whose first register is written at k
GroupAt(k) == CHOOSE m \in DOMAIN data_regs : data_regs[m][1] = tx_log[k].reg

\* the pins of the running engine
DataPins == Range(cfg.pins)

(***************************************************************************)
(* C24: the data-pin register writes of a byte are skipped if and only if  *)
(* the byte equals the byte transmitted before it, the last byte of an     *)
(* earlier strobe run included (here: the command byte before the first    *)
(* data byte of the same transmit).                                        *)
(***************************************************************************)
C24_ElidedIffRepeated ==
    \A k \in Strobes :
        PrevStrobe(k) # 0 =>
            (DataWritesOf(k) = {} <=> tx_log[k].byte = tx_log[PrevStrobe(k)].byte)

(***************************************************************************)
(* C25: on 16-bit-port hardware every non-elided byte write makes the      *)
(* combined write (low-half register: set bits of pins 0..15 in bits 0-15, *)
(* their clear bits in bits 16-31; high-half register: set bits of pins    *)
(* 16..31 in bits 0-15, their clear bits in bits 16-31), and on both       *)
(* families the routine used by transmit writes the words the reference    *)
(* slow routine writes.                                                    *)
(***************************************************************************)
C25_CombinedWrite ==
    \A k \in OpsAt("data_set") :
        /\ tx_log[k + 1].op = "data_clr"
        /\ <<tx_log[k].val, tx_log[k + 1].val>>
               = SlowWords(cfg.pins_per_port, GroupAt(k), tx_log[k].byte)

(***************************************************************************)
(* C26: for every assignment of 8 distinct data pins setup succeeds, every *)
(* data pin p has a sub-table for group p div 32 whose pin-mask has bit    *)
(* p mod 32, and a group without data pins has pin-mask 0 and none of its  *)
(* registers is written by a transmit.                                     *)
(***************************************************************************)
C26_SubTablePerGroup ==
    (bus # "new" /\ EightDistinct(cfg.pins)) =>
        /\ bus = "ready"
        /\ \A i \in DOMAIN cfg.pins :
             /\ (cfg.pins[i] \div LutBits) + 1 \in DOMAIN pin_masks
             /\ (cfg.pins[i] % LutBits) \in pin_masks[(cfg.pins[i] \div LutBits) + 1]
        /\ \A n \in DOMAIN pin_masks :
             /\ pin_masks[n] = PinMaskOf(cfg.pins, n - 1)
             /\ pin_masks[n] = {} =>
                  \A k \in OpsAt("data_set") \cup OpsAt("data_clr") :
                      tx_log[k].reg \notin Range(data_regs[n])

(***************************************************************************)
(* C28: the data-pin register writes of a byte carry only bits of the      *)
(* group's pin-mask and change the level of no pin other than the 8 data   *)
(* pins (chip-select, data/command and write-strobe included); the         *)
(* control-pin writes change no data pin.                                  *)
(***************************************************************************)
C28_WritesStayInMask ==
    /\ \A k \in OpsAt("data_set") \cup OpsAt("data_clr") :
         /\ tx_log[k].val \subseteq
                UNION {pin_masks[n] : n \in {m \in DOMAIN data_regs :
                                                 tx_log[k].reg \in Range(data_regs[m])}}
         /\ tx_log[k].lv \ DataPins = Before(k) \ DataPins
    /\ \A k \in DOMAIN tx_log :
         (k > 1 /\ tx_log[k].op \notin {"data_set", "data_clr"}) =>
             tx_log[k].lv \cap DataPins = Before(k) \cap DataPins

(***************************************************************************)
(* C23: of two bus engines with distinct pins, a transmit of one never     *)
(* changes the level of a data pin of the other, and at each strobe edge   *)
(* of a transmit the data pins of the transmitting engine encode its byte. *)
(***************************************************************************)
OwnByteAtEdges ==
    \A k \in DOMAIN tx_log :
        StrobeEdge(k) => DataPinsEncode(tx_log[k].lv, tx_log[k].byte)

C23_EnginesIndependent ==
    [][/\ (turn' = turn /\ peer.bus = "ready") =>
              levels' \cap Range(peer.cfg.pins) = levels \cap Range(peer.cfg.pins)
       /\ OwnByteAtEdges']_vars

(***************************************************************************)
(* C27: a change of the rotation to a different rotation resets the scroll *)
(* window to (0, new logical height, 0) and the scroll start to the        *)
(* disabled sentinel; setting the rotation to its current value, modulo    *)
(* 360, leaves buffer, scroll window, scroll start and the devices'        *)
(* rotations unchanged.                                                    *)
(***************************************************************************)
C27_RotationResetsScroll ==
    [][\A arg \in RotationValues :
          (arg % 90 = 0 /\ SetRotation(arg)) =>
              IF arg % 360 = rotation % 360
              THEN UNCHANGED <<buffer, tfa, vsa, bfa, vssa, devices>>
              ELSE /\ tfa' = 0
                   /\ vsa' = height'
                   /\ bfa' = 0
                   /\ vssa' = PyFalse]_vars

(***************************************************************************)
(* C29: whenever fill_rect, blit_rect, vscrdef, vscsad or a rotation       *)
(* change has returned, the output shows exactly the composite of the      *)
(* backing buffer under the current scroll state: every row outside the    *)
(* scroll area at its own position and the scroll area turned so that it   *)
(* begins with the start row; with scrolling disabled the last frame was   *)
(* one copy of the changed rectangle, with scrolling enabled it was the    *)
(* copies of the whole frame.                                              *)
(***************************************************************************)
\* the buffer row shown at row y of the output under the current scroll state
SourceRow(y) == IF Scrolling /\ y \in Band THEN ScrollRow(vssa.v, y - tfa) ELSE y

Composite == [y \in Rows |-> buffer[SourceRow(y)]]

C29_WindowShowsComposite ==
    /\ ImgW(buffer) = width
    /\ ImgH(buffer) = height
    /\ window = Composite
    /\ show_log # <<>> =>
         IF Scrolling
         THEN \A i \in DOMAIN show_log : show_log[i].name # "direct"
         ELSE Len(show_log) = 1 /\ show_log[1].name = "direct"

(***************************************************************************)
(* Observations on events                                                  *)
(***************************************************************************)
\* a step that reads the event source
Reading == QueueRead \/ Poll \/ PollerPoll

\* the calls of the step's poll() that went to subscriber i
CallsTo(i) == {k \in DOMAIN calls : calls[k].sub = i}

(***************************************************************************)
(* C21: every read of the event source, poll() included, can be made       *)
(* whatever is pending (it does not wait), takes at most one event out of  *)
(* the source, the oldest, returns it when its type is in the event        *)
(* filter, and returns none when nothing is pending or when the type of    *)
(* the event taken is not in the filter, that event being discarded.       *)
(***************************************************************************)
C21_ReadTakesOne ==
    [][/\ ENABLED QueueRead
       /\ Reading =>
            IF pending = <<>>
            THEN pending' = <<>> /\ ev_result' = None
            ELSE /\ pending' = Tail(pending)
                 /\ IF Head(pending).type \in EventsFilter
                    THEN /\ ev_result' # None
                         /\ ev_result'.type = Head(pending).type
                         /\ ev_result'.pos = Head(pending).pos
                         /\ ev_result'.button = Head(pending).button
                    ELSE ev_result' = None]_vars

\* a read has returned a motion event and the event that came after it still waits
C21_Witness ==
    /\ ev_result # None
    /\ ev_result.type = "MOUSEMOTION"
    /\ ev_result.buttons = <<1, 0, 1>>
    /\ Len(pending) = 1
    /\ pending[1].type = "WINDOWEVENT"

(***************************************************************************)
(* C22: when poll() obtains an event, the oldest one pending, every        *)
(* subscriber whose filter contains the event's type has been called       *)
(* exactly once with that event when poll() returns, the calls being made  *)
(* in registration order, and no other subscriber has been called.         *)
(***************************************************************************)
C22_SubscribersCalledInOrder ==
    [][(Poll \/ PollerPoll) =>
          IF ev_result' = None THEN calls' = <<>>
          ELSE /\ ev_result' = Convert(Head(pending))
               /\ \A i \in DOMAIN subscribers :
                    Cardinality(CallsTo(i)') =
                        (IF ev_result'.type \in subscribers[i].filter THEN 1 ELSE 0)
               /\ \A k \in DOMAIN calls' :
                    /\ calls'[k].sub \in DOMAIN subscribers
                    /\ calls'[k].cb = subscribers[calls'[k].sub].cb
                    /\ calls'[k].event = ev_result'
               /\ \A j \in DOMAIN calls', k \in DOMAIN calls' :
                    j < k => calls'[j].sub < calls'[k].sub]_vars

\* two different subscribers called for a button-down event, in registration order
C22_Witness ==
    /\ Len(subscribers) = 2
    /\ subscribers[1].cb # subscribers[2].cb
    /\ ev_result # None
    /\ ev_result.type = "MOUSEBUTTONDOWN"
    /\ Len(calls) = 2
    /\ calls[1].sub = 1
    /\ calls[2].sub = 2

(***************************************************************************)
(* C30: the Poller's touched flag is true exactly when the last button-1   *)
(* event given to its callback (button-1 down, motion with button 1 held,  *)
(* button-1 up) was not a button-1 up, false before any; its column and    *)
(* row are the position of the last button-1 down or held motion; other    *)
(* events change neither; Poller.poll() returns the flag.                  *)
(***************************************************************************)
Touched == last_touch.kind \in {"down", "motion"}

C30_TouchedFollowsButton1 ==
    [][/\ tpad'.touched <=> Touched'
       /\ <<tpad'.col, tpad'.row>> = last_touch'.pos
       /\ PollerPoll => (tpad_result' <=> Touched')]_vars

\* the pad was touched and released, and Poller.poll() has returned False
C30_Witness ==
    /\ last_touch.kind = "up"
    /\ last_touch.pos = <<1, 2>>
    /\ tpad = [touched |-> FALSE, col |-> 1, row |-> 2]
    /\ ~tpad_result
    /\ ev_result # None
    /\ ev_result.type = "MOUSEBUTTONUP"

====
